---- MODULE Spec2Model ----
(***************************************************************************)
(* RediScan: a read-only HTTP inspector of Redis lists.                    *)
(*                                                                         *)
(* The repository holds two builds of the same program:                    *)
(*   "part_000"  src/unnamed/part_000  optional index, bulk preload,       *)
(*                                     discovery with sizes                *)
(*   "main.go"   src/main.go           index required, single fetch only,  *)
(*                                     discovery of key names              *)
(* `build` says which one is running.  The store (Redis) is `db`; other    *)
(* clients change it between the round trips of a request.                 *)
(***************************************************************************)
EXTENDS Integers, Sequences, FiniteSets, TLC

VARIABLES
    build,      \* which of the two programs is running
    maxLists,   \* cap on discovery results (MAX_LISTS)
    db,         \* the store: key -> [type, vals]
    \* ---- one navigation request (GET /lindex) ----
    navPc,      \* position of lindexHandler
    key,        \* query parameter "key"
    indexStr,   \* query parameter "index", a sequence of characters
    keyType,    \* local keyType
    llen,       \* local llen
    index,      \* local index
    calls,      \* store calls issued by this request, in order: [cmd, ok]
    resp,       \* the response written
    raced,      \* history: another client wrote the requested key since the request began
    \* ---- one home page request (GET /) and its discovery scan ----
    scanPc,     \* position of indexHandler / getAvailableLists
    path,       \* r.URL.Path
    cursor,     \* local cursor
    keys,       \* local keys: the batch of the latest SCAN
    listKeys,   \* local listKeys (part_000)
    lists,      \* local lists: the accumulator
    ret,        \* what getAvailableLists returned: [lists, err]
    page,       \* the response written: [status, lists]
    stable,     \* history: the keys that have been lists since the scan began
    pending,    \* history: those of them the store's iteration has not delivered yet
    execErr,    \* history: how the latest pipeline Exec of the batch ended
    failedAt,   \* history: len(lists) at the first failed pipeline, -1 if none
    failedKeys, \* history: the keys whose command failed in the latest pipeline
    \* ---- the browser showing a result page ----
    browser,    \* the page loaded and the variables of its script
    lastStep,   \* history: the latest navigate(delta) and what it did
    \* ---- clients that went away ----
    abandoned,  \* the requests whose client has disconnected
    \* ---- one call of the value formatter ----
    input,      \* the element value handed to prettyPrintJSON
    output      \* what it returned: [done, val]

navVars == <<navPc, key, indexStr, keyType, llen, index, calls, resp, raced>>
scanVars ==
    <<scanPc, path, cursor, keys, listKeys, lists, ret, page, stable, pending,
      execErr, failedAt, failedKeys>>
pageVars == <<browser, lastStep>>
fmtVars == <<input, output>>
vars == <<build, maxLists, db, navVars, scanVars, pageVars, abandoned, fmtVars>>

-----------------------------------------------------------------------------
(* Bounds of the model *)

MaxCfgLists == 2

\* 1000 in the source; scaled down with the lists
maxPreloadSize == 2

MaxListLen == maxPreloadSize + 1

Builds == {"part_000", "main.go"}

Keys == {"mylist", "k2", "k3"}

\* keys that other clients write while a request is in flight
HotKeys == {"mylist"}

\* element values: not JSON, and JSON with leading whitespace
Values == { <<"x">>, <<" ", "7">> }

IndexStrs ==
    { <<>>, <<"0">>, <<"1">>, <<"2">>, <<"3">>, <<"+", "1">>, <<"-", "1">>,
      <<"0", "2">>, <<"x">>, <<"1", "x">>, <<"-">> }

-----------------------------------------------------------------------------
(* The store *)

None == [type |-> "none", vals |-> <<>>]

StringVal == [type |-> "string", vals |-> <<>>]

ListOf(vs) == IF vs = <<>> THEN None ELSE [type |-> "list", vals |-> vs]

\* TYPE key
StoreType(k) == db[k].type

\* LLEN key: 0 for a missing key, WRONGTYPE for a key that is no list
StoreLLen(k) ==
    IF db[k].type = "string" THEN [ok |-> FALSE, val |-> 0]
    ELSE [ok |-> TRUE, val |-> Len(db[k].vals)]

\* LRANGE key 0 -1: empty for a missing key, WRONGTYPE for a non-list
StoreLRange(k) ==
    IF db[k].type = "string" THEN [ok |-> FALSE, val |-> <<>>]
    ELSE [ok |-> TRUE, val |-> db[k].vals]

\* LINDEX key i: redis.Nil (an error to the caller) when there is no element
StoreLIndex(k, i) ==
    IF db[k].type = "string" \/ i < 0 \/ i >= Len(db[k].vals)
    THEN [ok |-> FALSE, val |-> <<>>]
    ELSE [ok |-> TRUE, val |-> db[k].vals[i + 1]]

\* other clients of the store
ClientRPush(k, v) ==
    /\ db[k].type # "string"
    /\ Len(db[k].vals) < MaxListLen
    /\ db' = [db EXCEPT ![k] = ListOf(Append(db[k].vals, v))]

ClientLPush(k, v) ==
    /\ db[k].type # "string"
    /\ Len(db[k].vals) < MaxListLen
    /\ db' = [db EXCEPT ![k] = ListOf(<<v>> \o db[k].vals)]

ClientLPop(k) ==
    /\ db[k].type = "list"
    /\ db' = [db EXCEPT ![k] = ListOf(Tail(db[k].vals))]

ClientDel(k) ==
    /\ db[k].type # "none"
    /\ db' = [db EXCEPT ![k] = None]

ClientSet(k) ==
    /\ db[k].type # "string"
    /\ db' = [db EXCEPT ![k] = StringVal]

-----------------------------------------------------------------------------
(* Pure helpers *)

Digits == {"0", "1", "2", "3", "4", "5", "6", "7", "8", "9"}

DigitVal(c) ==
    CASE c = "0" -> 0 [] c = "1" -> 1 [] c = "2" -> 2 [] c = "3" -> 3
      [] c = "4" -> 4 [] c = "5" -> 5 [] c = "6" -> 6 [] c = "7" -> 7
      [] c = "8" -> 8 [] c = "9" -> 9

DigitChar(d) ==
    CASE d = 0 -> "0" [] d = 1 -> "1" [] d = 2 -> "2" [] d = 3 -> "3"
      [] d = 4 -> "4" [] d = 5 -> "5" [] d = 6 -> "6" [] d = 7 -> "7"
      [] d = 8 -> "8" [] d = 9 -> "9"

RECURSIVE ParseUint(_, _)
\* digits of s folded into acc; any other character is a syntax error
ParseUint(s, acc) ==
    IF s = <<>> THEN [ok |-> TRUE, val |-> acc]
    ELSE IF Head(s) \notin Digits THEN [ok |-> FALSE, val |-> 0]
    ELSE ParseUint(Tail(s), acc * 10 + DigitVal(Head(s)))

\* strconv.ParseInt(s, 10, 64): optional sign, then at least one digit
ParseInt(s) ==
    IF s = <<>> THEN [ok |-> FALSE, val |-> 0]
    ELSE LET neg  == Head(s) = "-"
             rest == IF Head(s) \in {"+", "-"} THEN Tail(s) ELSE s
             u    == ParseUint(rest, 0)
         IN  IF rest = <<>> \/ ~u.ok THEN [ok |-> FALSE, val |-> 0]
             ELSE [ok |-> TRUE, val |-> IF neg THEN 0 - u.val ELSE u.val]

JSONSpace == {" ", "\t", "\n", "\r"}

RECURSIVE SkipSpace(_)
SkipSpace(s) ==
    IF s # <<>> /\ Head(s) \in JSONSpace THEN SkipSpace(Tail(s)) ELSE s

\* the characters of the inputs, in byte order
Ascii ==
    <<"\t", "\n", "\r", " ", "\"", ",", "-", "0", "1", "2", "3", "4", "5",
      "6", "7", "8", "9", ":", "A", "B", "C", "D", "E", "F", "G", "H", "I",
      "J", "K", "L", "M", "N", "O", "P", "Q", "R", "S", "T", "U", "V", "W",
      "X", "Y", "Z", "[", "]", "a", "b", "c", "d", "e", "f", "g", "h", "i",
      "j", "k", "l", "m", "n", "o", "p", "q", "r", "s", "t", "u", "v", "w",
      "x", "y", "z", "{", "}">>

ByteOrder(c) == CHOOSE i \in 1..Len(Ascii) : Ascii[i] = c

RECURSIVE StrLess(_, _)
\* a < b for Go strings: byte by byte
StrLess(a, b) ==
    IF b = <<>> THEN FALSE
    ELSE IF a = <<>> THEN TRUE
    ELSE IF Head(a) = Head(b) THEN StrLess(Tail(a), Tail(b))
    ELSE ByteOrder(Head(a)) < ByteOrder(Head(b))

\* JSON values as the decoder builds them: the text of a literal or of a
\* number, the characters of a string, the elements of an array, the
\* members of an object
JLit(text) == [t |-> "lit", v |-> text]

JNum(text) == [t |-> "num", v |-> text]

JStr(chars) == [t |-> "str", v |-> chars]

JArr(elems) == [t |-> "arr", v |-> elems]

JObj(members) == [t |-> "obj", v |-> members]

Member(k, e) == [k |-> k, e |-> e]

\* a result of the scanner: the value read and the input after it
Parsed(val, rest) == [ok |-> TRUE, val |-> val, rest |-> rest]

SyntaxError == [ok |-> FALSE, val |-> JLit(<<>>), rest |-> <<>>]

RECURSIVE ScanString(_, _)
\* the characters up to the closing quote; a control character ends it in
\* error (the inputs hold no escape sequences)
ScanString(s, acc) ==
    IF s = <<>> THEN SyntaxError
    ELSE IF Head(s) = "\"" THEN Parsed(JStr(acc), Tail(s))
    ELSE IF Head(s) \in {"\t", "\n", "\r"} THEN SyntaxError
    ELSE ScanString(Tail(s), Append(acc, Head(s)))

RECURSIVE ScanDigits(_, _)
ScanDigits(s, acc) ==
    IF s # <<>> /\ Head(s) \in Digits THEN ScanDigits(Tail(s), Append(acc, Head(s)))
    ELSE [digits |-> acc, rest |-> s]

\* an integer literal: optional minus, then 0 or a digit string that does
\* not start with 0 (the inputs hold no fraction and no exponent)
ScanNumber(s) ==
    LET sign == IF Head(s) = "-" THEN <<"-">> ELSE <<>>
        r    == IF Head(s) = "-" THEN Tail(s) ELSE s
    IN  IF r = <<>> \/ Head(r) \notin Digits THEN SyntaxError
        ELSE IF Head(r) = "0" THEN Parsed(JNum(sign \o <<"0">>), Tail(r))
        ELSE LET d == ScanDigits(r, <<>>)
             IN  Parsed(JNum(sign \o d.digits), d.rest)

ScanLiteral(s, text) ==
    IF Len(s) >= Len(text) /\ SubSeq(s, 1, Len(text)) = text
    THEN Parsed(JLit(text), SubSeq(s, Len(text) + 1, Len(s)))
    ELSE SyntaxError

RECURSIVE ScanValue(_), ScanElements(_, _), ScanMembers(_, _)
\* one JSON value at the head of s0, after any whitespace
ScanValue(s0) ==
    LET s == SkipSpace(s0)
    IN  IF s = <<>> THEN SyntaxError
        ELSE CASE Head(s) = "{" ->
                    LET t == SkipSpace(Tail(s))
                    IN  IF t # <<>> /\ Head(t) = "}" THEN Parsed(JObj(<<>>), Tail(t))
                        ELSE ScanMembers(t, <<>>)
               [] Head(s) = "[" ->
                    LET t == SkipSpace(Tail(s))
                    IN  IF t # <<>> /\ Head(t) = "]" THEN Parsed(JArr(<<>>), Tail(t))
                        ELSE ScanElements(t, <<>>)
               [] Head(s) = "\"" -> ScanString(Tail(s), <<>>)
               [] Head(s) = "-" \/ Head(s) \in Digits -> ScanNumber(s)
               [] Head(s) = "t" -> ScanLiteral(s, <<"t", "r", "u", "e">>)
               [] Head(s) = "f" -> ScanLiteral(s, <<"f", "a", "l", "s", "e">>)
               [] Head(s) = "n" -> ScanLiteral(s, <<"n", "u", "l", "l">>)
               [] OTHER -> SyntaxError

\* the elements of an array after "[": value, then "," or "]"
ScanElements(s, acc) ==
    LET e == ScanValue(s)
        t == SkipSpace(e.rest)
    IN  IF ~e.ok \/ t = <<>> THEN SyntaxError
        ELSE IF Head(t) = "," THEN ScanElements(Tail(t), Append(acc, e.val))
        ELSE IF Head(t) = "]" THEN Parsed(JArr(Append(acc, e.val)), Tail(t))
        ELSE SyntaxError

\* the members of an object after "{": string, ":", value, then "," or "}"
ScanMembers(s, acc) ==
    LET t == SkipSpace(s)
        k == IF t # <<>> /\ Head(t) = "\"" THEN ScanString(Tail(t), <<>>) ELSE SyntaxError
        u == SkipSpace(k.rest)
        e == IF k.ok /\ u # <<>> /\ Head(u) = ":" THEN ScanValue(Tail(u)) ELSE SyntaxError
        w == SkipSpace(e.rest)
    IN  IF ~e.ok \/ w = <<>> THEN SyntaxError
        ELSE IF Head(w) = "," THEN ScanMembers(Tail(w), Append(acc, Member(k.val.v, e.val)))
        ELSE IF Head(w) = "}" THEN Parsed(JObj(Append(acc, Member(k.val.v, e.val))), Tail(w))
        ELSE SyntaxError

\* the syntax check of json.Unmarshal: one value and nothing but whitespace
\* after it
checkValid(data) ==
    LET r == ScanValue(data)
    IN  IF r.ok /\ SkipSpace(r.rest) = <<>> THEN r ELSE SyntaxError

\* 2^53 and 2^54 in decimal digits
Pow2_53 ==
    <<"9", "0", "0", "7", "1", "9", "9", "2", "5", "4", "7", "4", "0", "9",
      "9", "2">>

Pow2_54 ==
    <<"1", "8", "0", "1", "4", "3", "9", "8", "5", "0", "9", "4", "8", "1",
      "9", "8", "4">>

\* a <= b for digit strings without leading zeros
DigitsLE(a, b) == Len(a) < Len(b) \/ (Len(a) = Len(b) /\ ~StrLess(b, a))

RECURSIVE Increment(_)
\* the digit string plus one
Increment(d) ==
    IF d = <<>> THEN <<"1">>
    ELSE LET last == DigitVal(d[Len(d)])
             init == SubSeq(d, 1, Len(d) - 1)
         IN  IF last = 9 THEN Increment(init) \o <<"0">>
             ELSE init \o <<DigitChar(last + 1)>>

\* an odd integer between 2^53 and 2^54 lies half way between two float64
\* values: the one with the even mantissa, a multiple of 4, is taken
RoundToEven(d) ==
    LET last == DigitVal(d[Len(d)])
        two  == 10 * DigitVal(d[Len(d) - 1]) + last
    IN  IF last % 2 = 0 THEN d
        ELSE IF two % 4 = 1 THEN SubSeq(d, 1, Len(d) - 1) \o <<DigitChar(last - 1)>>
        ELSE Increment(d)

\* strconv.ParseFloat(text, 64) of an integer literal, as the digits of the
\* float64 it yields: exact up to 2^53, rounded to the nearest even float up
\* to 2^54 (the largest literals of the inputs)
Float64(text) ==
    LET neg == Head(text) = "-"
        d   == IF neg THEN Tail(text) ELSE text
        f   == CASE DigitsLE(d, Pow2_53) -> d
                 [] ~DigitsLE(d, Pow2_53) /\ DigitsLE(d, Pow2_54) -> RoundToEven(d)
    IN  IF neg THEN <<"-">> \o f ELSE f

\* the number an integer literal denotes: minus zero is zero
Exact(text) == IF text = <<"-", "0">> THEN <<"0">> ELSE text

RECURSIVE MapPut(_, _, _)
\* m[k] = e for a map held as its members in key order
MapPut(m, k, e) ==
    IF m = <<>> THEN <<Member(k, e)>>
    ELSE IF Head(m).k = k THEN <<Member(k, e)>> \o Tail(m)
    ELSE IF StrLess(k, Head(m).k) THEN <<Member(k, e)>> \o m
    ELSE <<Head(m)>> \o MapPut(Tail(m), k, e)

RECURSIVE Decode(_, _), DecodeMembers(_, _, _)
\* the value a syntax tree stands for: numbers become float64 (or, with
\* exact, the numbers they denote), objects become maps
Decode(v, exact) ==
    CASE v.t = "num" -> JNum(IF exact THEN Exact(v.v) ELSE Float64(v.v))
      [] v.t = "arr" -> JArr([j \in 1..Len(v.v) |-> Decode(v.v[j], exact)])
      [] v.t = "obj" -> JObj(DecodeMembers(v.v, <<>>, exact))
      [] OTHER -> v

DecodeMembers(ms, m, exact) ==
    IF ms = <<>> THEN m
    ELSE DecodeMembers(Tail(ms), MapPut(m, Head(ms).k, Decode(Head(ms).e, exact)), exact)

\* json.Unmarshal([]byte(value), &jsonData) with jsonData an interface{}
Unmarshal(data) ==
    LET r == checkValid(data)
    IN  IF r.ok THEN [ok |-> TRUE, val |-> Decode(r.val, FALSE)]
        ELSE [ok |-> FALSE, val |-> JLit(<<>>)]

\* the indent argument of json.MarshalIndent
IndentUnit == <<" ", " ">>

RECURSIVE Indent(_)
Indent(depth) == IF depth = 0 THEN <<>> ELSE IndentUnit \o Indent(depth - 1)

\* mutant: no line breaks
NewLine_compact(depth) == <<>>

\* a new line at the given depth
NewLine(depth) == <<"\n">> \o Indent(depth)

RECURSIVE Encode(_, _), EncodeElements(_, _), EncodeMembers(_, _)
\* json.MarshalIndent(jsonData, "", "  "): maps are written in key order
Encode(v, depth) ==
    CASE v.t = "str" -> <<"\"">> \o v.v \o <<"\"">>
      [] v.t = "arr" ->
           IF v.v = <<>> THEN <<"[", "]">>
           ELSE <<"[">> \o NewLine(depth + 1) \o EncodeElements(v.v, depth + 1)
                \o NewLine(depth) \o <<"]">>
      [] v.t = "obj" ->
           IF v.v = <<>> THEN <<"{", "}">>
           ELSE <<"{">> \o NewLine(depth + 1) \o EncodeMembers(v.v, depth + 1)
                \o NewLine(depth) \o <<"}">>
      [] OTHER -> v.v

EncodeElements(es, depth) ==
    Encode(Head(es), depth)
    \o (IF Len(es) = 1 THEN <<>>
        ELSE <<",">> \o NewLine(depth) \o EncodeElements(Tail(es), depth))

EncodeMembers(ms, depth) ==
    <<"\"">> \o Head(ms).k \o <<"\"", ":", " ">> \o Encode(Head(ms).e, depth)
    \o (IF Len(ms) = 1 THEN <<>>
        ELSE <<",">> \o NewLine(depth) \o EncodeMembers(Tail(ms), depth))

MarshalIndent(v) == Encode(v, 0)

\* mutant: the input trimmed when it is not JSON
prettyPrintJSON_trimmed(value) ==
    LET r == Unmarshal(value)
    IN  IF ~r.ok THEN SkipSpace(value) ELSE MarshalIndent(r.val)

\* json.Unmarshal then json.MarshalIndent; the input itself when it is not JSON
prettyPrintJSON(value) ==
    LET r == Unmarshal(value)
    IN  IF ~r.ok THEN value ELSE MarshalIndent(r.val)

-----------------------------------------------------------------------------
(* Responses *)

\* no page in the browser yet
\* metaIndex is the index the template wrote into the title and into the
\* "Index:" line of the page; currentIndex is the script's, shown in the
\* line "currentIndex / maxIndex"
NoPageLoaded ==
    [page |-> "none", key |-> "", metaIndex |-> -1, currentIndex |-> -1,
     maxIndex |-> -1, allValues |-> <<>>, shown |-> <<>>]

NoStep == [from |-> -1, delta |-> 0, max |-> -1, page |-> "none", did |-> "none"]

NotFormatted == [done |-> FALSE, val |-> <<>>]

\* a message: its text, and the two numbers the bounds message prints
Msg(text) == <<text, -1, -1>>

BoundsMsg(i, n) == <<"OutOfBounds", i, n>>

NoResp ==
    [status |-> 0, page |-> "none", msg |-> Msg(""), index |-> -1, llen |-> -1,
     values |-> <<>>, complete |-> FALSE]

\* mutant: the 404 header never written
renderNotFound_noHeader(message) ==
    [status |-> 200, page |-> "notfound", msg |-> message, index |-> -1,
     llen |-> -1, values |-> <<>>, complete |-> TRUE]

renderNotFound(message) ==
    [status |-> 404, page |-> "notfound", msg |-> message, index |-> -1,
     llen |-> -1, values |-> <<>>, complete |-> TRUE]

\* mutant: a store failure shown as the not-found page
renderError_asNotFound(message) == renderNotFound(message)

renderError(message) ==
    [status |-> 500, page |-> "error", msg |-> message, index |-> -1,
     llen |-> -1, values |-> <<>>, complete |-> TRUE]

\* the template reads AllValues[Index]: execution stops there when Index is
\* no position of AllValues, after the 200 header went out
renderResultWithPreload(i, n, allValues) ==
    [status |-> 200, page |-> "preload", msg |-> Msg(""), index |-> i, llen |-> n,
     values |-> allValues, complete |-> (i >= 0 /\ i < Len(allValues))]

renderResultWithoutPreload(i, n, value) ==
    [status |-> 200, page |-> "single", msg |-> Msg(""), index |-> i, llen |-> n,
     values |-> <<value>>, complete |-> TRUE]

\* main.go's only result page
renderResult(i, n, value) ==
    [status |-> 200, page |-> "single", msg |-> Msg(""), index |-> i, llen |-> n,
     values |-> <<value>>, complete |-> TRUE]

-----------------------------------------------------------------------------
(* GET /lindex, build part_000: lindexHandler, one action per store round trip *)

\* the package-level ctx every store call is given
ctx == "Background"

\* ctx.Done() is closed: never for context.Background(); for a context derived
\* from the request r, once the client of r has gone away
CtxDone(c, r) == c # "Background" /\ r \in abandoned

\* how a store call on behalf of request r may end: it fails for certain
\* when its context is done, and may fail at any time otherwise
CallFails(r) == IF CtxDone(ctx, r) THEN {TRUE} ELSE BOOLEAN

\* the positions of a pipeline of n commands that may fail
PipelineFails(r, n) == IF CtxDone(ctx, r) THEN {1..n} ELSE SUBSET (1..n)

StoreFailed == [ok |-> FALSE, val |-> <<>>]

Call(cmd, ok) == [cmd |-> cmd, ok |-> ok]

\* mutant: the upper bound off by one
OutOfBounds_offByOne(i, n) == i < 0 \/ i > n

\* mutant: a negative index let through
OutOfBounds_negative(i, n) == i >= n

OutOfBounds(i, n) == i < 0 \/ i >= n

\* mutant: the default one past the tail
DefaultIndex_pastTail(n) == n

DefaultIndex(n) == n - 1

\* mutant: the threshold itself excluded
UsePreload_strict(n) == n < maxPreloadSize

UsePreload(n) == n <= maxPreloadSize

Finish(r) == resp' = r /\ navPc' = "done"

\* entry: read the parameters, reject a missing key
lindexHandler(k, s) ==
    /\ build = "part_000"
    /\ navPc \in {"idle", "done"}
    /\ key' = k /\ indexStr' = s
    /\ calls' = <<>> /\ keyType' = "" /\ llen' = 0 /\ index' = 0
    /\ raced' = FALSE
    /\ IF k = "" THEN Finish(renderNotFound(Msg("MissingKey")))
       ELSE resp' = NoResp /\ navPc' = "Type"
    /\ UNCHANGED <<scanVars, abandoned, fmtVars, build, maxLists, db>>

\* redisClient.Type and the two type checks
lindexHandler_Type ==
    /\ build = "part_000"
    /\ navPc = "Type"
    /\ \E fail \in CallFails("nav") :
        /\ calls' = Append(calls, Call("TYPE", ~fail))
        /\ IF fail
           THEN Finish(renderError(Msg("ErrType"))) /\ UNCHANGED keyType
           ELSE /\ keyType' = StoreType(key)
                /\ IF keyType' = "none"
                   THEN Finish(renderNotFound(Msg("KeyNotExist")))
                   ELSE IF keyType' # "list"
                   THEN Finish(renderNotFound(Msg("NotAList")))
                   ELSE navPc' = "LLen" /\ UNCHANGED resp
    /\ UNCHANGED <<scanVars, pageVars, abandoned, fmtVars, build, maxLists, db, raced, key, indexStr, llen, index>>

\* redisClient.LLen, the empty check, index resolution, the bounds check and
\* the choice of the fetch
lindexHandler_LLen ==
    /\ build = "part_000"
    /\ navPc = "LLen"
    /\ \E fail \in CallFails("nav") :
        LET r == IF fail THEN StoreFailed ELSE StoreLLen(key)
            p == ParseInt(indexStr)
            i == IF indexStr = <<>> THEN DefaultIndex(r.val) ELSE p.val
        IN  /\ calls' = Append(calls, Call("LLEN", r.ok))
            /\ IF ~r.ok
               THEN Finish(renderError(Msg("ErrLLen"))) /\ UNCHANGED <<llen, index>>
               ELSE /\ llen' = r.val
                    /\ IF r.val = 0
                       THEN Finish(renderNotFound(Msg("ListEmpty"))) /\ UNCHANGED index
                       ELSE IF indexStr # <<>> /\ ~p.ok
                       THEN Finish(renderNotFound(Msg("InvalidIndex"))) /\ UNCHANGED index
                       ELSE /\ index' = i
                            /\ IF OutOfBounds(i, r.val)
                               THEN Finish(renderNotFound(BoundsMsg(i, r.val)))
                               ELSE /\ navPc' = IF UsePreload(r.val) THEN "LRange" ELSE "LIndex"
                                    /\ UNCHANGED resp
    /\ UNCHANGED <<scanVars, pageVars, abandoned, fmtVars, build, maxLists, db, raced, key, indexStr, keyType>>

\* mutant: the values as they are stored
prettyValues_raw(allValues) == allValues

\* prettyValues[i] = prettyPrintJSON(value) for every value of allValues
prettyValues(allValues) ==
    [j \in 1..Len(allValues) |-> prettyPrintJSON(allValues[j])]

\* redisClient.LRange(key, 0, -1), every value formatted, the preloaded page
lindexHandler_LRange ==
    /\ build = "part_000"
    /\ navPc = "LRange"
    /\ \E fail \in CallFails("nav") :
        LET r == IF fail THEN StoreFailed ELSE StoreLRange(key)
        IN  /\ calls' = Append(calls, Call("LRANGE", r.ok))
            /\ IF ~r.ok
               THEN Finish(renderError(Msg("ErrLRange")))
               ELSE Finish(renderResultWithPreload(index, llen, prettyValues(r.val)))
    /\ UNCHANGED <<scanVars, pageVars, abandoned, fmtVars, build, maxLists, db, raced, key, indexStr, keyType, llen, index>>

\* redisClient.LIndex(key, index), the value formatted, the single-value page
lindexHandler_LIndex ==
    /\ build = "part_000"
    /\ navPc = "LIndex"
    /\ \E fail \in CallFails("nav") :
        LET r == IF fail THEN StoreFailed ELSE StoreLIndex(key, index)
        IN  /\ calls' = Append(calls, Call("LINDEX", r.ok))
            /\ IF ~r.ok
               THEN Finish(renderError(Msg("ErrLIndex")))
               ELSE Finish(renderResultWithoutPreload(index, llen, prettyPrintJSON(r.val)))
    /\ UNCHANGED <<scanVars, pageVars, abandoned, fmtVars, build, maxLists, db, raced, key, indexStr, keyType, llen, index>>

-----------------------------------------------------------------------------
(* GET /lindex, build main.go: the index is parsed before any store call *)

lindexHandler_main(k, s) ==
    /\ build = "main.go"
    /\ navPc \in {"idle", "done"}
    /\ key' = k /\ indexStr' = s
    /\ calls' = <<>> /\ keyType' = "" /\ llen' = 0
    /\ raced' = FALSE
    /\ LET p == ParseInt(s)
       IN  IF k = ""
           THEN Finish(renderNotFound(Msg("MissingKey"))) /\ index' = 0
           ELSE IF ~p.ok
           THEN Finish(renderNotFound(Msg("InvalidIndex"))) /\ index' = 0
           ELSE resp' = NoResp /\ navPc' = "Type" /\ index' = p.val
    /\ UNCHANGED <<scanVars, abandoned, fmtVars, build, maxLists, db>>

lindexHandler_main_Type ==
    /\ build = "main.go"
    /\ navPc = "Type"
    /\ \E fail \in CallFails("nav") :
        /\ calls' = Append(calls, Call("TYPE", ~fail))
        /\ IF fail
           THEN Finish(renderError(Msg("ErrType"))) /\ UNCHANGED keyType
           ELSE /\ keyType' = StoreType(key)
                /\ IF keyType' = "none"
                   THEN Finish(renderNotFound(Msg("KeyNotExist")))
                   ELSE IF keyType' # "list"
                   THEN Finish(renderNotFound(Msg("NotAList")))
                   ELSE navPc' = "LLen" /\ UNCHANGED resp
    /\ UNCHANGED <<scanVars, pageVars, abandoned, fmtVars, build, maxLists, db, raced, key, indexStr, llen, index>>

lindexHandler_main_LLen ==
    /\ build = "main.go"
    /\ navPc = "LLen"
    /\ \E fail \in CallFails("nav") :
        LET r == IF fail THEN StoreFailed ELSE StoreLLen(key)
        IN  /\ calls' = Append(calls, Call("LLEN", r.ok))
            /\ IF ~r.ok
               THEN Finish(renderError(Msg("ErrLLen"))) /\ UNCHANGED llen
               ELSE /\ llen' = r.val
                    /\ IF r.val = 0
                       THEN Finish(renderNotFound(Msg("ListEmpty")))
                       ELSE IF OutOfBounds(index, r.val)
                       THEN Finish(renderNotFound(BoundsMsg(index, r.val)))
                       ELSE navPc' = "LIndex" /\ UNCHANGED resp
    /\ UNCHANGED <<scanVars, pageVars, abandoned, fmtVars, build, maxLists, db, raced, key, indexStr, keyType, index>>

lindexHandler_main_LIndex ==
    /\ build = "main.go"
    /\ navPc = "LIndex"
    /\ \E fail \in CallFails("nav") :
        LET r == IF fail THEN StoreFailed ELSE StoreLIndex(key, index)
        IN  /\ calls' = Append(calls, Call("LINDEX", r.ok))
            /\ IF ~r.ok
               THEN Finish(renderError(Msg("ErrLIndex")))
               ELSE Finish(renderResult(index, llen, prettyPrintJSON(r.val)))
    /\ UNCHANGED <<scanVars, pageVars, abandoned, fmtVars, build, maxLists, db, raced, key, indexStr, keyType, llen, index>>

-----------------------------------------------------------------------------
(* GET /: indexHandler and getAvailableLists, one action per store round trip *)

MaxBatch == 2

\* a cursor is opaque to the program, which only tests it against 0 and
\* hands it back: 1 stands for every cursor that is not the start sentinel
Cursors == {0, 1}

Paths == {"/", "/favicon.ico"}

RECURSIVE SeqsUpTo(_)
\* the sequences of keys of length at most n
SeqsUpTo(n) ==
    IF n = 0 THEN {<<>>}
    ELSE LET shorter == SeqsUpTo(n - 1)
         IN  shorter \cup
             {Append(q, k) : q \in {x \in shorter : Len(x) = n - 1}, k \in Keys}

Range(q) == {q[j] : j \in 1..Len(q)}

Distinct(q) == Cardinality(Range(q)) = Len(q)

\* what one SCAN may deliver: existing keys, in any order; a key may come
\* again in a later batch
Batches ==
    {q \in SeqsUpTo(MaxBatch) : Distinct(q) /\ \A k \in Range(q) : db[k].type # "none"}

NoReturn == [lists |-> <<>>, err |-> FALSE]

NoPage == [status |-> 0, lists |-> <<>>]

\* ListInfo in part_000; main.go keeps the key alone
ListInfo(name, size) == [Name |-> name, Size |-> size]

NameOf(e) == IF build = "part_000" THEN e.Name ELSE e

\* mutant: the page fails when discovery failed
indexPage_failOnErr(ls, err) ==
    IF err THEN [status |-> 500, lists |-> <<>>] ELSE [status |-> 200, lists |-> ls]

\* indexHandler after getAvailableLists: the error is logged, the template
\* is executed with what was returned
indexPage(ls, err) == [status |-> 200, lists |-> ls]

\* getAvailableLists returns and indexHandler renders
Return(ls, err) ==
    /\ ret' = [lists |-> ls, err |-> err]
    /\ page' = indexPage(ls, err)
    /\ scanPc' = "done"
    /\ UNCHANGED <<keys, listKeys>>

\* mutant: the accumulated entries returned with the error
OnScanError_partial(ls) == ls

\* return nil, err
OnScanError(ls) == <<>>

\* mutant: the cap tested one entry late
Full_late(n) == n > maxLists

\* len(lists) >= maxLists
Full(n) == n >= maxLists

\* mutant: every type but "string" taken for a list
IsListType_notString(t) == t \notin {"string", "err"}

\* keyType == "list"
IsListType(t) == t = "list"

\* mutant: the loop left after the first batch
AfterBatch_break(c) == Return(lists', FALSE)

\* mutant: the cursor never tested
AfterBatch_noBreak(c) ==
    /\ scanPc' = "Scan"
    /\ keys' = <<>> /\ listKeys' = <<>>
    /\ UNCHANGED <<ret, page>>

\* the end of one iteration: if cursor == 0 { break }; return lists, nil.
\* The locals of the loop body end with the iteration.
AfterBatch(c) ==
    IF c = 0 THEN Return(lists', FALSE)
    ELSE /\ scanPc' = "Scan"
         /\ keys' = <<>> /\ listKeys' = <<>>
         /\ UNCHANGED <<ret, page>>

RECURSIVE AppendLoop(_, _)
\* append the entries one by one, stop at the one that fills the accumulator
AppendLoop(ls, es) ==
    IF es = <<>> THEN [lists |-> ls, full |-> FALSE]
    ELSE LET ls2 == Append(ls, Head(es))
         IN  IF Full(Len(ls2)) THEN [lists |-> ls2, full |-> TRUE]
             ELSE AppendLoop(ls2, Tail(es))

RECURSIVE Filter(_, _)
\* the elements of q at the positions in keep, in order
Filter(q, keep) ==
    IF q = <<>> THEN <<>>
    ELSE LET rest == Filter(Tail(q), {j - 1 : j \in keep \ {1}})
         IN  IF 1 \in keep THEN <<Head(q)>> \o rest ELSE rest

indexHandler(p) ==
    /\ scanPc \in {"idle", "done"}
    /\ path' = p
    /\ cursor' = 0 /\ keys' = <<>> /\ listKeys' = <<>> /\ lists' = <<>>
    /\ ret' = NoReturn
    /\ execErr' = "none" /\ failedAt' = -1 /\ failedKeys' = {}
    /\ stable' = {k \in Keys : db[k].type = "list"}
    /\ pending' = stable'
    /\ IF p # "/"
       THEN page' = [status |-> 404, lists |-> <<>>] /\ scanPc' = "done"
       ELSE page' = NoPage /\ scanPc' = "Scan"
    /\ UNCHANGED <<pageVars, abandoned, fmtVars, build, maxLists, db, navVars>>

\* redisClient.Scan(ctx, cursor, "*", 100); the same code in both builds.
\* The store ends the iteration (cursor 0) only when every key that was
\* there all along has been delivered.
getAvailableLists_Scan ==
    /\ scanPc = "Scan"
    /\ \/ /\ Return(OnScanError(lists), TRUE)
          /\ UNCHANGED <<cursor, lists, pending>>
       \/ \E batch \in Batches, next \in Cursors :
            /\ ~CtxDone(ctx, "home")
            /\ next = 0 => pending \subseteq Range(batch)
            /\ cursor' = next
            /\ pending' = pending \ Range(batch)
            /\ UNCHANGED lists
            /\ IF Len(batch) > 0
               THEN /\ scanPc' = "Type"
                    /\ keys' = batch
                    /\ UNCHANGED <<listKeys, ret, page>>
               ELSE AfterBatch(next)
    /\ execErr' = "none" /\ failedKeys' = {}
    /\ UNCHANGED <<pageVars, abandoned, fmtVars, build, maxLists, db, navVars, path, stable, failedAt>>

\* the pipelined replies: position j fails when it is in failed
TypeReplies(failed) ==
    [j \in 1..Len(keys) |-> IF j \in failed THEN "err" ELSE StoreType(keys[j])]

NoteFailure(err) ==
    /\ execErr' = IF err THEN "err" ELSE "ok"
    /\ failedAt' = IF err /\ failedAt = -1 THEN Len(lists) ELSE failedAt

\* part_000: the TYPE pipeline; a failed Exec skips the batch
getAvailableLists_Type ==
    /\ build = "part_000"
    /\ scanPc = "Type"
    /\ \E failed \in PipelineFails("home", Len(keys)) :
        LET replies == TypeReplies(failed)
            err     == failed # {}
            isList  == {j \in 1..Len(keys) : IsListType(replies[j])}
        IN  /\ NoteFailure(err)
            /\ failedKeys' = {keys[j] : j \in failed}
            /\ UNCHANGED lists
            /\ IF err
               THEN AfterBatch(cursor)
               ELSE IF isList # {}
               THEN /\ listKeys' = Filter(keys, isList)
                    /\ scanPc' = "LLen"
                    /\ UNCHANGED <<keys, ret, page>>
               ELSE AfterBatch(cursor)
    /\ UNCHANGED <<pageVars, abandoned, fmtVars, build, maxLists, db, navVars, path, cursor, pending, stable>>

\* part_000: the LLEN pipeline over listKeys; a failed Exec skips the batch,
\* otherwise every reply is good and the entries are appended up to the cap
getAvailableLists_LLen ==
    /\ build = "part_000"
    /\ scanPc = "LLen"
    /\ \E failed \in PipelineFails("home", Len(listKeys)) :
        LET replies == [j \in 1..Len(listKeys) |->
                           IF j \in failed THEN StoreFailed ELSE StoreLLen(listKeys[j])]
            err     == \E j \in 1..Len(listKeys) : ~replies[j].ok
            entries == [j \in 1..Len(listKeys) |-> ListInfo(listKeys[j], replies[j].val)]
            acc     == AppendLoop(lists, entries)
        IN  /\ NoteFailure(err)
            /\ failedKeys' = {listKeys[j] : j \in {i \in 1..Len(listKeys) : ~replies[i].ok}}
            /\ IF err
               THEN UNCHANGED lists /\ AfterBatch(cursor)
               ELSE /\ lists' = acc.lists
                    /\ IF acc.full THEN Return(acc.lists, FALSE) ELSE AfterBatch(cursor)
    /\ UNCHANGED <<pageVars, abandoned, fmtVars, build, maxLists, db, navVars, path, cursor, pending, stable>>

\* main.go: the TYPE pipeline; a failed Exec is logged and the replies that
\* did arrive are still used
getAvailableLists_main_Type ==
    /\ build = "main.go"
    /\ scanPc = "Type"
    /\ \E failed \in PipelineFails("home", Len(keys)) :
        LET replies == TypeReplies(failed)
            err     == failed # {}
            isList  == {j \in 1..Len(keys) : IsListType(replies[j])}
            acc     == AppendLoop(lists, Filter(keys, isList))
        IN  /\ NoteFailure(err)
            /\ failedKeys' = {keys[j] : j \in failed}
            /\ lists' = acc.lists
            /\ IF acc.full THEN Return(acc.lists, FALSE) ELSE AfterBatch(cursor)
    /\ UNCHANGED <<pageVars, abandoned, fmtVars, build, maxLists, db, navVars, path, cursor, pending, stable>>

-----------------------------------------------------------------------------
(* Specifications *)

\* main(): the configuration; the keyspace of the navigation scenarios: the
\* list other clients write is absent at first, k2 is a string, k3 is absent
Init ==
    /\ build \in Builds
    /\ maxLists \in 1..MaxCfgLists
    /\ db = [k \in Keys |-> IF k = "k2" THEN StringVal ELSE None]
    /\ navPc = "idle"
    /\ key = "" /\ indexStr = <<>>
    /\ keyType = "" /\ llen = 0 /\ index = 0
    /\ calls = <<>>
    /\ resp = NoResp
    /\ raced = FALSE
    /\ scanPc = "idle" /\ path = "/" /\ cursor = 0
    /\ keys = <<>> /\ listKeys = <<>> /\ lists = <<>>
    /\ ret = NoReturn /\ page = NoPage
    /\ stable = {} /\ pending = {}
    /\ execErr = "none" /\ failedAt = -1 /\ failedKeys = {}
    /\ browser = NoPageLoaded /\ lastStep = NoStep
    /\ abandoned = {}
    /\ input = <<>> /\ output = NotFormatted

\* a write of another client, seen from the request in flight
Write(k) ==
    /\ raced' = (raced \/ (navPc # "idle" /\ k = key))
    /\ stable' = {x \in stable : db'[x].type = "list"}
    /\ pending' = {x \in pending : db'[x].type = "list"}
    /\ UNCHANGED <<build, maxLists, navPc, key, indexStr, keyType, llen, index, calls, resp>>
    /\ UNCHANGED <<scanPc, path, cursor, keys, listKeys, lists, ret, page,
                   execErr, failedAt, failedKeys>>
    /\ UNCHANGED <<pageVars, abandoned, fmtVars>>

RPush == \E k \in HotKeys, v \in Values : ClientRPush(k, v) /\ Write(k)

LPush == \E k \in HotKeys, v \in Values : ClientLPush(k, v) /\ Write(k)

LPop == \E k \in HotKeys : ClientLPop(k) /\ Write(k)

Del == \E k \in HotKeys : ClientDel(k) /\ Write(k)

Set == \E k \in HotKeys : ClientSet(k) /\ Write(k)

Request ==
    \E k \in Keys \cup {""}, s \in IndexStrs : lindexHandler(k, s) /\ UNCHANGED pageVars

Request_main ==
    \E k \in Keys \cup {""}, s \in IndexStrs :
        lindexHandler_main(k, s) /\ UNCHANGED pageVars

Next ==
    \/ RPush \/ LPush \/ LPop \/ Del \/ Set
    \/ Request
    \/ lindexHandler_Type
    \/ lindexHandler_LLen
    \/ lindexHandler_LRange
    \/ lindexHandler_LIndex
    \/ Request_main
    \/ lindexHandler_main_Type
    \/ lindexHandler_main_LLen
    \/ lindexHandler_main_LIndex

Spec == Init /\ [][Next]_vars

\* the keyspaces a scan starts on: the list other clients write is absent,
\* k2 is a string or a list, k3 is absent or a list
Keyspaces ==
    {d \in [Keys -> {None, StringVal, ListOf(<<<<"x">>>>)}] :
        /\ \A k \in HotKeys : d[k] = None
        /\ d["k2"] # None
        /\ d["k3"] # StringVal}

InitDiscover ==
    /\ build \in Builds
    /\ maxLists \in 1..MaxCfgLists
    /\ db \in Keyspaces
    /\ navPc = "idle"
    /\ key = "" /\ indexStr = <<>>
    /\ keyType = "" /\ llen = 0 /\ index = 0
    /\ calls = <<>>
    /\ resp = NoResp
    /\ raced = FALSE
    /\ scanPc = "idle" /\ path = "/" /\ cursor = 0
    /\ keys = <<>> /\ listKeys = <<>> /\ lists = <<>>
    /\ ret = NoReturn /\ page = NoPage
    /\ stable = {} /\ pending = {}
    /\ execErr = "none" /\ failedAt = -1 /\ failedKeys = {}
    /\ browser = NoPageLoaded /\ lastStep = NoStep
    /\ abandoned = {}
    /\ input = <<>> /\ output = NotFormatted

Home == \E p \in Paths : indexHandler(p)

\* the scan reads types and lengths only: one value is pushed
Push == \E k \in HotKeys : ClientRPush(k, <<"x">>) /\ Write(k)

NextDiscover ==
    \/ Push \/ LPop \/ Del \/ Set
    \/ Home
    \/ getAvailableLists_Scan
    \/ getAvailableLists_Type
    \/ getAvailableLists_LLen
    \/ getAvailableLists_main_Type

SpecDiscover == InitDiscover /\ [][NextDiscover]_vars

-----------------------------------------------------------------------------
(* The result page in the browser: navigate(delta) of its script *)

\* the two buttons and the two arrow keys
Deltas == {-1, 1}

RECURSIVE Itoa(_)
\* '&index=' + newIndex: the decimal digits of a number that is not negative
Itoa(n) ==
    IF n < 10 THEN <<DigitChar(n)>>
    ELSE Itoa(n \div 10) \o <<DigitChar(n % 10)>>

\* the browser waits for the response to a request for key k
Loading(k) ==
    [page |-> "loading", key |-> k, metaIndex |-> -1, currentIndex |-> -1,
     maxIndex |-> -1, allValues |-> <<>>, shown |-> <<>>]

\* allValues[i] in the script: undefined past the end of the array
ValueAt(allValues, i) ==
    IF i >= 0 /\ i < Len(allValues) THEN allValues[i + 1] ELSE <<>>

\* the page the browser has when the response r to a request for key k has
\* arrived: a complete result page with the numbers the template wrote, from
\* which its script starts; any other page has no script
ResultPage(r, k) ==
    IF r.status = 200 /\ r.complete
    THEN [page |-> r.page, key |-> k,
          metaIndex |-> r.index,
          currentIndex |-> r.index, maxIndex |-> r.llen - 1,
          allValues |-> IF r.page = "preload" THEN r.values ELSE <<>>,
          shown |-> IF r.page = "preload"
                    THEN ValueAt(r.values, r.index) ELSE r.values[1]]
    ELSE [Loading(k) EXCEPT !.page = "other"]

\* the response has arrived and replaces what was shown
Load ==
    /\ navPc = "done" /\ browser.page = "loading"
    /\ browser' = ResultPage(resp, browser.key)
    /\ UNCHANGED <<build, maxLists, db, navVars, scanVars, lastStep, abandoned, fmtVars>>

\* mutant: the step past the last index stays on the last index
Wrap_clamp(newIndex, maxIndex) == IF newIndex > maxIndex THEN maxIndex ELSE newIndex

\* else if (newIndex > maxIndex) { newIndex = 0; }
Wrap(newIndex, maxIndex) == IF newIndex > maxIndex THEN 0 ELSE newIndex

\* what navigate(delta) started from and what it did
Step(delta, did) ==
    [from |-> browser.currentIndex, delta |-> delta, max |-> browser.maxIndex,
     page |-> browser.page, did |-> did]

\* window.location.href = '/lindex?key=' + k [+ '&index=' + s]: the browser
\* leaves the page and the server gets the request
Location(k, s) ==
    /\ IF build = "part_000" THEN lindexHandler(k, s) ELSE lindexHandler_main(k, s)
    /\ browser' = Loading(k)

\* part_000, the script of the page with the preloaded values: it sets the
\* value, the line "newIndex / maxIndex", the address and currentIndex, and
\* nothing else of the page
navigate_preload(delta) ==
    /\ build = "part_000" /\ browser.page = "preload"
    /\ LET newIndex == browser.currentIndex + delta
       IN  IF newIndex < 0
           THEN /\ Location(browser.key, <<>>)
                /\ lastStep' = Step(delta, "request")
           ELSE LET i == Wrap(newIndex, browser.maxIndex)
                IN  /\ browser' = [browser EXCEPT !.currentIndex = i,
                                                  !.shown = ValueAt(browser.allValues, i)]
                    /\ lastStep' = Step(delta, "local")
                    /\ UNCHANGED <<build, maxLists, db, navVars, scanVars,
                                   abandoned, fmtVars>>

\* part_000, the script of the page with one value
navigate_single(delta) ==
    /\ build = "part_000" /\ browser.page = "single"
    /\ LET newIndex == browser.currentIndex + delta
       IN  /\ IF newIndex < 0
              THEN Location(browser.key, <<>>)
              ELSE Location(browser.key, Itoa(Wrap(newIndex, browser.maxIndex)))
           /\ lastStep' = Step(delta, "request")

\* main.go, the script of its result page
navigate_main(delta) ==
    /\ build = "main.go" /\ browser.page = "single"
    /\ LET newIndex == browser.currentIndex + delta
       IN  IF newIndex >= 0 /\ newIndex <= browser.maxIndex
           THEN /\ Location(browser.key, Itoa(newIndex))
                /\ lastStep' = Step(delta, "request")
           ELSE /\ lastStep' = Step(delta, "none")
                /\ UNCHANGED <<build, maxLists, db, navVars, scanVars, browser,
                               abandoned, fmtVars>>

RECURSIVE ValueSeqs(_)
\* the lists of exactly n element values
ValueSeqs(n) ==
    IF n = 0 THEN {<<>>}
    ELSE {Append(q, v) : q \in ValueSeqs(n - 1), v \in Values}

\* a list of 1..MaxListLen elements that no other client writes
InitPaging ==
    /\ build \in Builds
    /\ maxLists = MaxCfgLists
    /\ \E n \in 1..MaxListLen : \E vs \in ValueSeqs(n) :
         db = [k \in Keys |-> IF k = "mylist" THEN ListOf(vs)
                               ELSE IF k = "k2" THEN StringVal ELSE None]
    /\ navPc = "idle"
    /\ key = "" /\ indexStr = <<>>
    /\ keyType = "" /\ llen = 0 /\ index = 0
    /\ calls = <<>>
    /\ resp = NoResp
    /\ raced = FALSE
    /\ scanPc = "idle" /\ path = "/" /\ cursor = 0
    /\ keys = <<>> /\ listKeys = <<>> /\ lists = <<>>
    /\ ret = NoReturn /\ page = NoPage
    /\ stable = {} /\ pending = {}
    /\ execErr = "none" /\ failedAt = -1 /\ failedKeys = {}
    /\ browser = NoPageLoaded /\ lastStep = NoStep
    /\ abandoned = {}
    /\ input = <<>> /\ output = NotFormatted

\* the user opens a URL of the inspector
Open ==
    \E k \in Keys, s \in IndexStrs :
        /\ build = "part_000" /\ lindexHandler(k, s)
        /\ browser' = Loading(k) /\ lastStep' = NoStep

Open_main ==
    \E k \in Keys, s \in IndexStrs :
        /\ build = "main.go" /\ lindexHandler_main(k, s)
        /\ browser' = Loading(k) /\ lastStep' = NoStep

Navigate == \E delta \in Deltas : navigate_preload(delta)

NavigateSingle == \E delta \in Deltas : navigate_single(delta)

NavigateMain == \E delta \in Deltas : navigate_main(delta)

NextPaging ==
    \/ Open
    \/ lindexHandler_Type
    \/ lindexHandler_LLen
    \/ lindexHandler_LRange
    \/ lindexHandler_LIndex
    \/ Open_main
    \/ lindexHandler_main_Type
    \/ lindexHandler_main_LLen
    \/ lindexHandler_main_LIndex
    \/ Load
    \/ Navigate
    \/ NavigateSingle
    \/ NavigateMain

SpecPaging == InitPaging /\ [][NextPaging]_vars

-----------------------------------------------------------------------------
(* Clients that go away while their request is served *)

Requests == {"nav", "home"}

InFlight(r) ==
    IF r = "nav" THEN navPc \in {"Type", "LLen", "LRange", "LIndex"}
    ELSE scanPc \in {"Scan", "Type", "LLen"}

\* the client of request r disconnects: net/http cancels the context of r
Abandon ==
    \E r \in Requests :
        /\ InFlight(r) /\ r \notin abandoned
        /\ abandoned' = abandoned \cup {r}
        /\ UNCHANGED <<build, maxLists, db, navVars, scanVars, pageVars, fmtVars>>

\* build part_000 over a keyspace that no other client writes: a list that
\* is preloaded or one that is not, and a second list
InitCancel ==
    /\ build = "part_000"
    /\ maxLists = MaxCfgLists
    /\ \E n \in {1, MaxListLen} :
         db = [k \in Keys |-> IF k = "mylist" THEN ListOf([j \in 1..n |-> <<"x">>])
                               ELSE IF k = "k2" THEN ListOf(<<<<"x">>>>) ELSE None]
    /\ navPc = "idle"
    /\ key = "" /\ indexStr = <<>>
    /\ keyType = "" /\ llen = 0 /\ index = 0
    /\ calls = <<>>
    /\ resp = NoResp
    /\ raced = FALSE
    /\ scanPc = "idle" /\ path = "/" /\ cursor = 0
    /\ keys = <<>> /\ listKeys = <<>> /\ lists = <<>>
    /\ ret = NoReturn /\ page = NoPage
    /\ stable = {} /\ pending = {}
    /\ execErr = "none" /\ failedAt = -1 /\ failedKeys = {}
    /\ browser = NoPageLoaded /\ lastStep = NoStep
    /\ abandoned = {}
    /\ input = <<>> /\ output = NotFormatted

\* one request of each kind
FirstRequest ==
    /\ navPc = "idle"
    /\ \E k \in HotKeys, s \in {<<>>, <<"0">>} : lindexHandler(k, s) /\ UNCHANGED pageVars

FirstHome == scanPc = "idle" /\ indexHandler("/")

NextCancel ==
    \/ Abandon
    \/ FirstRequest
    \/ lindexHandler_Type
    \/ lindexHandler_LLen
    \/ lindexHandler_LRange
    \/ lindexHandler_LIndex
    \/ FirstHome
    \/ getAvailableLists_Scan
    \/ getAvailableLists_Type
    \/ getAvailableLists_LLen

SpecCancel == InitCancel /\ [][NextCancel]_vars

-----------------------------------------------------------------------------
(* The value formatter on its own: prettyPrintJSON applied to one input *)

MaxFmtLen == 3

\* the characters of the inputs that are enumerated in full
FmtAlphabet == {"{", "}", "[", "]", "\"", ":", ",", "a", "1", " "}

RECURSIVE Strings(_)
\* the strings over FmtAlphabet of length n
Strings(n) ==
    IF n = 0 THEN {<<>>}
    ELSE {Append(s, c) : s \in Strings(n - 1), c \in FmtAlphabet}

\* the element values of the README and of the scenarios
AliceJSON ==
    <<"{", "\"", "n", "a", "m", "e", "\"", ":", "\"", "A", "l", "i", "c",
      "e", "\"", ",", "\"", "a", "g", "e", "\"", ":", "3", "0", "}">>

AliceReadme ==
    <<"{", "\"", "n", "a", "m", "e", "\"", ":", " ", "\"", "A", "l", "i",
      "c", "e", "\"", ",", " ", "\"", "a", "g", "e", "\"", ":", " ", "3",
      "0", "}">>

AlicePretty ==
    <<"{", "\n", " ", " ", "\"", "a", "g", "e", "\"", ":", " ", "3", "0",
      ",", "\n", " ", " ", "\"", "n", "a", "m", "e", "\"", ":", " ", "\"",
      "A", "l", "i", "c", "e", "\"", "\n", "}">>

NotJSON ==
    <<"n", "o", "t", " ", "j", "s", "o", "n">>

\* 2^53 + 1, the first integer that is no float64
BigInt ==
    <<"9", "0", "0", "7", "1", "9", "9", "2", "5", "4", "7", "4", "0", "9",
      "9", "3">>

OtherSamples ==
    { <<"-", "0">>,
      <<"t", "r", "u", "e">>,
      <<"f", "a", "l", "s", "e">>,
      <<"n", "u", "l", "l">>,
      <<"t", "r", "u">>,
      <<"[", "1", ",", "{", "\"", "a", "\"", ":", "[", "]", "}", "]">>,
      <<"{", "\"", "a", "\"", ":", "1", ",", "\"", "a", "\"", ":", "2", "}">>,
      <<"{", "\"", "b", "\"", ":", "[", "t", "r", "u", "e", "]", ",", "\"",
        "a", "\"", ":", "n", "u", "l", "l", "}">>,
      <<"{", "\"", "a", "\"", ":", "1", ",", "}">>,
      <<"{", "\"", "a", "\"", ":", "1", "}", " ", "x">>,
      <<"9", "0", "0", "7", "1", "9", "9", "2", "5", "4", "7", "4", "0", "9",
        "9", "5">>,
      <<"-", "9", "0", "0", "7", "1", "9", "9", "2", "5", "4", "7", "4", "0",
        "9", "9", "3">>,
      <<"9", "0", "0", "7", "1", "9", "9", "2", "5", "4", "7", "4", "0", "9",
        "9", "2">>,
      <<"1", "8", "0", "1", "4", "3", "9", "8", "5", "0", "9", "4", "8", "1",
        "9", "8", "3">>,
      <<"0", "1">>,
      <<"-">>,
      <<"\"", "a">>,
      <<"{", "\"", "a", "\"", " ", "1", "}">>,
      <<"[", "1", " ", "2", "]">>,
      <<"\t", "[", " ", "]", "\n">>,
      <<"{", "\"", "a", "\"", ":", "{", "\"", "b", "\"", ":", "\"", "c", " ",
        "d", "\"", "}", "}">>,
      <<"1", "2">>,
      <<"[", "1", "0", ",", "9", "]">> }

FormatInputs ==
    UNION {Strings(n) : n \in 0..MaxFmtLen}
    \cup {AliceJSON, AliceReadme, NotJSON, BigInt} \cup OtherSamples

InitFormat ==
    /\ build = "part_000"
    /\ maxLists = MaxCfgLists
    /\ db = [k \in Keys |-> None]
    /\ navPc = "idle"
    /\ key = "" /\ indexStr = <<>>
    /\ keyType = "" /\ llen = 0 /\ index = 0
    /\ calls = <<>>
    /\ resp = NoResp
    /\ raced = FALSE
    /\ scanPc = "idle" /\ path = "/" /\ cursor = 0
    /\ keys = <<>> /\ listKeys = <<>> /\ lists = <<>>
    /\ ret = NoReturn /\ page = NoPage
    /\ stable = {} /\ pending = {}
    /\ execErr = "none" /\ failedAt = -1 /\ failedKeys = {}
    /\ browser = NoPageLoaded /\ lastStep = NoStep
    /\ abandoned = {}
    /\ input \in FormatInputs /\ output = NotFormatted

\* prettyPrintJSON(input) returns
Format ==
    /\ ~output.done
    /\ output' = [done |-> TRUE, val |-> prettyPrintJSON(input)]
    /\ UNCHANGED <<build, maxLists, db, navVars, scanVars, pageVars, abandoned, input>>

NextFormat == Format

SpecFormat == InitFormat /\ [][NextFormat]_vars

-----------------------------------------------------------------------------
(* Discovery under fairness: a pipeline that was sent is answered and the
   loop goes on; nothing is assumed about the SCAN replies.  The keyspace
   changes by one overwrite at most. *)

Fairness ==
    /\ WF_vars(getAvailableLists_Type)
    /\ WF_vars(getAvailableLists_LLen)
    /\ WF_vars(getAvailableLists_main_Type)

\* another client overwrites a list with a string: a length query for it
\* that is under way fails
Retype == ClientSet("k2") /\ Write("k2")

NextDiscoverFair ==
    \/ Retype
    \/ Home
    \/ getAvailableLists_Scan
    \/ getAvailableLists_Type
    \/ getAvailableLists_LLen
    \/ getAvailableLists_main_Type

SpecDiscoverFair == InitDiscover /\ [][NextDiscoverFair]_vars /\ Fairness

-----------------------------------------------------------------------------
(* The two strategies on one list *)

\* the else branch of the strategy decision: the answer to
\* GET /lindex?key=k&index=i by one LINDEX, for a position i of the list
SingleFetch(k, i) ==
    renderResultWithoutPreload(i, StoreLLen(k).val, prettyPrintJSON(StoreLIndex(k, i).val))

\* what the user reads on a result page: the index of the title and of the
\* "Index:" line, the line "position / last", the value
Visible(b) ==
    [index |-> b.metaIndex, position |-> b.currentIndex, last |-> b.maxIndex,
     value |-> b.shown]

-----------------------------------------------------------------------------
(* Properties of navigation *)

Done == navPc = "done"

TypeRead == Len(calls) >= 1 /\ calls[1].ok

LLenRead == Len(calls) >= 2 /\ calls[2].ok

NoCallFailed == \A j \in 1..Len(calls) : calls[j].ok

\* the handler read the key as a list and read its length: llen is that length
ReadAsList == TypeRead /\ keyType = "list" /\ LLenRead

NotFound == resp.status = 404 /\ resp.page = "notfound"

StoreError == resp.status = 500 /\ resp.page = "error"

Result == resp.status = 200 /\ resp.page \in {"preload", "single"}

Requested == ParseInt(indexStr)

\* C1: for a key read as a list of length L and an index string that parses
\* to i, the request ends NotFound exactly when i < 0 or i >= L, a result
\* page is a page for index i, and without a store failure 0 <= i < L ends
\* in a result page.
C1_BoundsIff ==
    (Done /\ ReadAsList /\ Requested.ok) =>
        LET i == Requested.val
            L == llen
        IN  /\ NotFound <=> (i < 0 \/ i >= L)
            /\ Result => (resp.index = i /\ resp.llen = L)
            /\ (NoCallFailed /\ 0 <= i /\ i < L) => Result

\* the scenario navigate(key, i) with i = L on a list of L = 3 elements
C1_Witness ==
    /\ Done /\ ReadAsList /\ indexStr = <<"3">> /\ llen = 3
    /\ NotFound /\ resp.msg = BoundsMsg(3, 3)

\* C2 as written: a request without an index for a list of length L > 0 that
\* no client touches resolves to L-1 and is never answered NotFound.
C2_Original ==
    (Done /\ ~raced /\ indexStr = <<>> /\ key \in Keys /\ db[key].type = "list") =>
        /\ ~NotFound
        /\ Result => resp.index = Len(db[key].vals) - 1

\* C2, amended: in build part_000 a request without an index for a key read
\* as a list of length L > 0 resolves to L-1, is never answered NotFound and
\* ends in a result page for L-1 unless a store call fails; in build main.go
\* a request without an index is answered NotFound "invalid index" before
\* any store call.
C2_DefaultNewest ==
    /\ (build = "part_000" /\ Done /\ indexStr = <<>> /\ ReadAsList /\ llen > 0) =>
           /\ index = llen - 1
           /\ ~NotFound
           /\ Result => resp.index = llen - 1
           /\ NoCallFailed => Result
    /\ (build = "main.go" /\ Done /\ indexStr = <<>> /\ key # "") =>
           /\ NotFound /\ resp.msg = Msg("InvalidIndex")
           /\ calls = <<>>

C2_Witness ==
    /\ build = "part_000" /\ Done /\ indexStr = <<>> /\ ReadAsList /\ llen = 3
    /\ Result /\ resp.index = 2

\* C3: in build part_000 a request that passed validation (the length L was
\* read and the request was not answered NotFound) fetches by one full-range
\* read when L <= maxPreloadSize and by one indexed read when L > maxPreloadSize,
\* and by nothing else.
Validated == LLenRead /\ ~NotFound

C3_PreloadThreshold ==
    (build = "part_000" /\ Validated) =>
        LET fetch == IF llen <= maxPreloadSize THEN "LRANGE" ELSE "LINDEX"
        IN  /\ Len(calls) = 2 => navPc = (IF fetch = "LRANGE" THEN "LRange" ELSE "LIndex")
            /\ Len(calls) >= 3 => (Len(calls) = 3 /\ calls[3].cmd = fetch)
            /\ Result => (resp.page = "preload" <=> llen <= maxPreloadSize)

\* a list of exactly maxPreloadSize elements is preloaded
C3_Witness ==
    /\ build = "part_000" /\ Done /\ llen = maxPreloadSize
    /\ Len(calls) = 3 /\ calls[3].cmd = "LRANGE" /\ resp.page = "preload"

\* C4: a request ends NotFound (404), not as a store error and not as a
\* result, when the key parameter is missing, the type read says the key
\* does not exist or is no list, the length read is 0, the index string
\* does not parse (and no store call failed before that was looked at), or
\* the parsed index is outside the length read.
Unparsable == ~Requested.ok /\ (build = "part_000" => indexStr # <<>>)

C5_StoreFailure ==
    /\ \A j \in 1..Len(calls) :
           ~calls[j].ok => (j = Len(calls) /\ Done /\ StoreError /\ ~NotFound)
    /\ \A a, b \in 1..Len(calls) : a # b => calls[a].cmd # calls[b].cmd

C5_Witness ==
    /\ Done /\ Len(calls) = 3 /\ calls[1].ok /\ calls[2].ok /\ ~calls[3].ok
    /\ StoreError

-----------------------------------------------------------------------------
(* Properties of discovery *)

Scanning == scanPc \in {"Scan", "Type", "LLen"}

Returned == scanPc = "done" /\ path = "/"

\* the entries a step appended
Appended == {lists'[j] : j \in (Len(lists) + 1)..Len(lists')}

Kept == Len(lists') >= Len(lists) /\ SubSeq(lists', 1, Len(lists)) = lists

\* C6: discover with cap N never holds or returns more than N entries, what
\* it returns is what it accumulated, and every entry it appends is a key of
\* the batch whose TYPE reply in that batch was "list".
C6_TypeChecked ==
    /\ (scanPc = "Type" /\ scanPc' = "LLen") =>
           \A k \in Range(listKeys') : k \in Range(keys) /\ db[k].type = "list"
    /\ \A e \in Appended :
           IF build = "part_000"
           THEN scanPc = "LLen" /\ e.Name \in Range(listKeys)
           ELSE scanPc = "Type" /\ e \in Range(keys) /\ db[e].type = "list"

C6_CapAndType ==
    /\ [](/\ Len(lists) <= maxLists
          /\ Len(ret.lists) <= maxLists
          /\ Returned => (ret.lists \in {lists, <<>>} /\ page.lists = ret.lists))
    /\ [][C6_TypeChecked]_vars

\* a full result that stopped at the cap
C6_Witness ==
    /\ Returned /\ maxLists = 2 /\ Len(ret.lists) = 2 /\ page.lists = ret.lists

\* C7 as written: a scan failure returns the entries accumulated so far.
C7_Original == (Returned /\ ret.err) => ret.lists = lists

\* C7, amended: when fetching a scan batch fails, discover aborts the scan
\* and returns the error with no entries at all, also when earlier batches
\* had contributed entries; the home page then shows an empty list.
C7_ScanErrorDropsAll ==
    (Returned /\ ret.err) =>
        /\ ret.lists = <<>>
        /\ page.status = 200 /\ page.lists = <<>>

C7_Witness == Returned /\ ret.err /\ lists # <<>> /\ ret.lists = <<>>

\* a pipeline Exec of the batch in hand failed in this step
PipelineFailed == scanPc \in {"Type", "LLen"} /\ execErr' = "err"

\* the batch is dropped and the loop goes on: to the next SCAN, or to the
\* normal return when the cursor is back at 0
Skipped ==
    /\ lists' = lists
    /\ IF cursor # 0 THEN scanPc' = "Scan"
       ELSE scanPc' = "done" /\ ret' = [lists |-> lists, err |-> FALSE]

\* C8 as written: a failed type or length pipeline skips the batch, keeps the
\* entries and continues with the next cursor.
C8_Original == [][PipelineFailed => Skipped]_vars

\* C8, amended: in build part_000 a failed type or length pipeline skips the
\* batch, keeps the entries and continues with the next cursor; in build
\* main.go (which has no length pipeline) a failed type pipeline is only
\* logged: the keys of that batch whose own reply arrived as "list" are still
\* appended up to the cap, the earlier entries are kept, and the scan
\* continues with the next cursor unless the cap was reached.
C8_SkipOrUse ==
    [][PipelineFailed =>
          IF build = "part_000" THEN Skipped
          ELSE /\ Kept
               /\ \A e \in Appended : e \in Range(keys) /\ db[e].type = "list"
               /\ IF Len(lists') >= maxLists \/ cursor = 0
                  THEN scanPc' = "done" /\ ret' = [lists |-> lists', err |-> FALSE]
                  ELSE scanPc' = "Scan"]_vars

\* entries from before the failed batch are kept and a later batch added one
C8_Witness ==
    /\ build = "part_000" /\ failedAt >= 1 /\ Len(lists) > failedAt
    /\ Returned /\ ret.lists = lists

\* C9: while a scan is in progress fewer than N entries are accumulated (no
\* store call follows the N-th entry), and a scan without a failed store
\* call over a keyspace with at least N keys that were lists all along
\* returns exactly N entries.
C9_StopsAtCap ==
    /\ Scanning => Len(lists) < maxLists
    /\ (Returned /\ ~ret.err /\ failedAt = -1 /\ Cardinality(stable) >= maxLists)
           => Len(ret.lists) = maxLists

\* the N-th entry came from a batch that held a further list key, and the
\* store's iteration was not over
C9_Witness ==
    /\ build = "part_000" /\ Returned /\ ~ret.err /\ failedAt = -1
    /\ Cardinality(stable) > maxLists
    /\ Len(ret.lists) = maxLists /\ cursor # 0
    /\ Len(listKeys) >= 2 /\ ret.lists[maxLists].Name = listKeys[1]

\* C10: GET / always ends in the rendered page (200) showing what discovery
\* returned, which is nothing when the scan failed; no response of the home
\* page is an error response.
C10_AlwaysRenders ==
    /\ page.status # 500
    /\ Returned =>
           /\ page.status = 200
           /\ page.lists = ret.lists
           /\ ret.err => page.lists = <<>>

\* a scan in which a pipeline failed and then a SCAN failed
C10_Witness == Returned /\ ret.err /\ failedAt >= 0 /\ page.status = 200

-----------------------------------------------------------------------------
(* Properties of paging *)

Stepped == lastStep # NoStep

\* the step made the browser request the key with an index string that reads
\* as i, and a result page that answers it is a page for i
Asks(i) ==
    /\ lastStep.did = "request"
    /\ navPc # "idle" /\ key = browser.key
    /\ ParseInt(indexStr) = [ok |-> TRUE, val |-> i]
    /\ (Done /\ Result) => resp.index = i

\* the step moved the page to index i without a request
Shows(i) ==
    /\ lastStep.did = "local"
    /\ browser.page = "preload" /\ browser.currentIndex = i
    /\ browser.shown = browser.allValues[i + 1]

GoesTo(i) ==
    /\ i >= 0 /\ i <= lastStep.max
    /\ IF lastStep.page = "preload" THEN Shows(i) ELSE Asks(i)

\* the step made the browser request the key with no index, and a result
\* page that answers it is a page for the newest element
Fresh ==
    /\ lastStep.did = "request"
    /\ navPc # "idle" /\ key = browser.key /\ indexStr = <<>>
    /\ (Done /\ Result) => resp.index = resp.llen - 1

\* the step did nothing
Stays ==
    /\ lastStep.did = "none"
    /\ browser.page = lastStep.page /\ browser.currentIndex = lastStep.from

Wraps ==
    IF lastStep.delta = 1 /\ lastStep.from = lastStep.max THEN GoesTo(0)
    ELSE IF lastStep.delta = -1 /\ lastStep.from = 0 THEN Fresh
    ELSE GoesTo(lastStep.from + lastStep.delta)

\* C11 as written: in every result page a step forward from the last index
\* goes to 0, a step backward from 0 issues a fresh request with no index,
\* and every other step goes to c+1 or c-1.
C11_Original == Stepped => Wraps

\* C11, amended: in build part_000, on both result pages, a step forward from
\* the last index m goes to 0, a step backward from 0 issues a fresh request
\* with no index (answered with the newest element), every other step goes to
\* c+1 or c-1, and the index stays in 0..m; in build main.go a step to c+1 or
\* c-1 inside 0..m requests that index and a step that would leave 0..m does
\* nothing: the page stays on c.
C11_PagingStep ==
    Stepped =>
        IF build = "part_000" THEN Wraps
        ELSE LET i == lastStep.from + lastStep.delta
             IN  IF i >= 0 /\ i <= lastStep.max THEN GoesTo(i) ELSE Stays

\* the preloaded page went from the last index of a list of two or more to 0
C11_Witness ==
    /\ build = "part_000" /\ lastStep.page = "preload" /\ lastStep.delta = 1
    /\ lastStep.max >= 1 /\ lastStep.from = lastStep.max
    /\ browser.currentIndex = 0 /\ browser.shown = db["mylist"].vals[1]

-----------------------------------------------------------------------------
(* Properties of cancellation *)

\* the step issues a store call of the navigation request and the call is
\* carried out
NavCallServed == Len(calls') > Len(calls) /\ calls'[Len(calls')].ok

\* the step is a SCAN or a pipeline of the scan that the store answered
ScanCallServed ==
    \/ scanPc = "Scan" /\ ~ret'.err /\ (scanPc' # "Scan" \/ cursor' # cursor)
    \/ scanPc \in {"Type", "LLen"} /\ scanPc' # scanPc /\ execErr' = "ok"

\* C12: once the client of a request has gone away, the cancellation reaches
\* the store calls of that request: none of them is carried out any more.
C12_Original ==
    [][/\ "nav" \in abandoned => ~NavCallServed
       /\ "home" \in abandoned => ~ScanCallServed]_vars

-----------------------------------------------------------------------------
(* Properties of the formatter *)

Formatted == output.done

\* s is a JSON text
ValidJSON(s) == checkValid(s).ok

\* the JSON value a JSON text denotes
ValueOf(s) == Decode(checkValid(s).val, TRUE)

RECURSIVE Lines(_)
\* the number of lines of a text
Lines(s) ==
    IF s = <<>> THEN 1
    ELSE (IF Head(s) = "\n" THEN 1 ELSE 0) + Lines(Tail(s))

\* a sequence of characters
IsText(s) == \A i \in 1..Len(s) : \E j \in 1..Len(Ascii) : s[i] = Ascii[j]

\* C14: for every input that is not valid JSON the formatter returns the
\* input itself, character for character, and the formatter returns for
\* every input.
C14_NonJSONUnchanged ==
    /\ (Formatted /\ ~ValidJSON(input)) => output.val = input
    /\ IsText(prettyPrintJSON(input))

\* a text that starts like JSON and is cut short
C14_Witness ==
    /\ Formatted /\ input = <<" ", "{", "\"">> /\ ~ValidJSON(input)
    /\ output.val = input

\* C15: for every input that is valid JSON the result is valid JSON and
\* denotes the same JSON value as the input, also for integers that no
\* float64 holds exactly.
C15_Original ==
    (Formatted /\ ValidJSON(input)) =>
        /\ ValidJSON(output.val)
        /\ ValueOf(output.val) = ValueOf(input)

\* C16 as written: the object {"name":"Alice","age":30} formats to a block of
\* 3 lines.
C16_Original == (Formatted /\ input = AliceJSON) => Lines(output.val) = 3

\* the syntax tree of the input is an object whose members have distinct
\* keys and scalar values
FlatObject(s) ==
    LET v == checkValid(s).val
    IN  /\ ValidJSON(s) /\ v.t = "obj"
        /\ \A i, j \in 1..Len(v.v) : i # j => v.v[i].k # v.v[j].k
        /\ \A i \in 1..Len(v.v) : v.v[i].e.t \in {"num", "str", "lit"}

Members(s) == Len(checkValid(s).val.v)

\* C16, amended: an object with n >= 1 scalar members formats to a block of
\* n + 2 lines: the opening brace, one line per member indented by two spaces
\* (members in key order, "key": value), the closing brace; the object
\* {"name":"Alice","age":30} formats to the 4 lines {, "age": 30, "name":
\* "Alice" and }.
C16_FourLines ==
    Formatted =>
        /\ input \in {AliceJSON, AliceReadme} =>
               (output.val = AlicePretty /\ Lines(output.val) = 4)
        /\ (FlatObject(input) /\ Members(input) >= 1) =>
               Lines(output.val) = Members(input) + 2

C16_Witness == Formatted /\ input = AliceJSON /\ output.val = AlicePretty

-----------------------------------------------------------------------------
(* Properties of the preloaded result *)

\* the requested key is a list that no other client wrote during the request
Unmodified == Done /\ ~raced /\ key \in Keys /\ db[key].type = "list"

\* C13: in build part_000, for a list of L <= maxPreloadSize elements that is
\* not modified during the request, a request that is not answered NotFound
\* and meets no store failure ends in the preloaded page; that page reports
\* llen = L and holds exactly L values, the value at position j being the
\* formatted element j of the list, head to tail.
C13_PreloadAll ==
    (build = "part_000" /\ Unmodified /\ Len(db[key].vals) <= maxPreloadSize) =>
        LET elems == db[key].vals
            L     == Len(elems)
        IN  /\ (NoCallFailed /\ ~NotFound) => resp.page = "preload"
            /\ resp.page = "preload" =>
                   /\ resp.llen = L
                   /\ Len(resp.values) = L
                   /\ \A j \in 1..L : resp.values[j] = prettyPrintJSON(elems[j])
                   /\ \A j \in 1..L : elems[j] = <<" ", "7">> => resp.values[j] = <<"7">>
                   /\ \A j \in 1..L : elems[j] = <<"x">> => resp.values[j] = <<"x">>

\* a list of maxPreloadSize elements, JSON at the head, preloaded on a
\* request without an index
C13_Witness ==
    /\ build = "part_000" /\ Unmodified /\ indexStr = <<>>
    /\ Len(db[key].vals) = maxPreloadSize
    /\ db[key].vals[1] = <<" ", "7">> /\ db[key].vals[maxPreloadSize] = <<"x">>
    /\ resp.page = "preload" /\ resp.index = maxPreloadSize - 1
    /\ resp.values[1] = <<"7">> /\ resp.values[maxPreloadSize] = <<"x">>

-----------------------------------------------------------------------------
(* Properties of the order of the checks *)

\* the store calls of a request so far are the first calls of TYPE, LLEN and
\* one fetch, in that order
CallOrder ==
    /\ Len(calls) <= 3
    /\ Len(calls) >= 1 => calls[1].cmd = "TYPE"
    /\ Len(calls) >= 2 => calls[2].cmd = "LLEN"
    /\ Len(calls) >= 3 => calls[3].cmd \in {"LRANGE", "LINDEX"}

\* no length query unless the type read said "list"; no element read unless
\* the length was read, was not 0, and the index passed the bounds check
Gated ==
    /\ Len(calls) >= 2 => (calls[1].ok /\ keyType = "list")
    /\ Len(calls) >= 3 => (calls[2].ok /\ llen > 0 /\ index >= 0 /\ index < llen)

\* the index parameter is there and does not parse
BadIndex == indexStr # <<>> /\ ~ParseInt(indexStr).ok

\* what a request with a bad index is answered when the key does not exist,
\* is no list, or was read as an empty list
KeyConditionFirst ==
    (Done /\ BadIndex /\ key # "" /\ NoCallFailed) =>
        /\ (~raced /\ db[key].type = "none") => resp.msg = Msg("KeyNotExist")
        /\ (~raced /\ db[key].type = "string") => resp.msg = Msg("NotAList")
        /\ (LLenRead /\ llen = 0) => resp.msg = Msg("ListEmpty")
        /\ resp.msg = Msg("InvalidIndex") => (ReadAsList /\ llen > 0)

\* C17 as written: in every build the checks run in the order key-present,
\* type, length, index-resolve, bounds, fetch and the first failing check
\* decides: a bad index for a key that does not exist, is no list or is empty
\* reports the key condition.
C17_Original == CallOrder /\ Gated /\ KeyConditionFirst

\* C17, amended: in build part_000 the checks run in the order key-present,
\* type, length, index-resolve, bounds, fetch and the first failing check
\* decides, so a bad index for a key that does not exist, is no list or is
\* empty reports the key condition; in build main.go the index is parsed right
\* after the key-present check, before any store call, so a bad index (or none)
\* is answered "invalid index" whatever the key, and the remaining checks run
\* in the order type, length, bounds, fetch.  In both builds no length query is
\* issued unless the type read said "list" and no element read is issued
\* unless the bounds check passed.
C17_CheckOrder ==
    /\ CallOrder /\ Gated
    /\ build = "part_000" => KeyConditionFirst
    /\ (build = "main.go" /\ Done /\ key # "" /\ ~ParseInt(indexStr).ok) =>
           (calls = <<>> /\ resp.msg = Msg("InvalidIndex"))
    /\ (build = "main.go" /\ Len(calls) >= 1) => ParseInt(indexStr).ok

\* part_000 reports the missing key although the index does not parse
C17_Witness ==
    /\ build = "part_000" /\ Done /\ indexStr = <<"x">> /\ key = "k3"
    /\ Len(calls) = 1 /\ resp.msg = Msg("KeyNotExist")

-----------------------------------------------------------------------------
(* Termination of discovery *)

\* the latest SCAN reply carried cursor 0 and its batch is being checked
ZeroCursor == scanPc \in {"Type", "LLen"} /\ cursor = 0

\* the store's iteration comes to its end: a scan that is running gets a
\* SCAN reply with cursor 0 unless it has ended before
CursorReturnsToZero == [](Scanning => <>(ZeroCursor \/ ~Scanning))

\* C18: for every behaviour of the store in which the cursor of a running
\* scan eventually comes back as 0, the scan ends (by the cursor, by the cap
\* or by a failed SCAN), also when type or length pipelines fail on the way.
C18_Terminates == CursorReturnsToZero => [](Scanning => <>~Scanning)

\* a scan that ended by the cursor after a pipeline of its last batch failed
C18_Witness ==
    /\ Returned /\ ~ret.err /\ cursor = 0 /\ execErr = "err"
    /\ Len(ret.lists) < maxLists

-----------------------------------------------------------------------------
(* Per-key failures inside a pipeline *)

\* the step is a pipeline in which the command of some key failed and the
\* command of some other key did not
PartialFailure ==
    /\ scanPc \in {"Type", "LLen"}
    /\ failedKeys' # {}
    /\ failedKeys' # Range(IF scanPc = "Type" THEN keys ELSE listKeys)

Names(ls) == {NameOf(ls[j]) : j \in 1..Len(ls)}

\* the keys of the pipeline whose own command succeeded, and that are lists
GoodListKeys ==
    {k \in Range(IF scanPc = "Type" THEN keys ELSE listKeys) \ failedKeys' :
        db[k].type = "list"}

\* they go on to the next stage of the batch, or into the result up to the cap
StillProcessed ==
    \A k \in GoodListKeys :
        \/ k \in Names(lists')
        \/ Len(lists') >= maxLists
        \/ scanPc' = "LLen" /\ k \in Range(listKeys')

\* C19: a pipeline in which the command of one key fails does not abort the
\* batch: the keys whose own command succeeded are still processed and the
\* lists among them are reported.
C19_Original == [][PartialFailure => StillProcessed]_vars

-----------------------------------------------------------------------------
(* The preloaded result against writers *)

\* C20: in every preloaded result the index is a position of the array of
\* values that came with it, also when other clients shorten or delete the
\* list between the length read and the range read.
C20_Original ==
    resp.page = "preload" => (resp.index >= 0 /\ resp.index < Len(resp.values))

\* C21: a preloaded result never holds more than maxPreloadSize values, also
\* when another client appends to the list between the length read and the
\* full-range read of the same request.
C21_Original ==
    resp.page = "preload" => Len(resp.values) <= maxPreloadSize

-----------------------------------------------------------------------------
(* Keys that a scan delivers more than once *)

\* C22: discovery never returns two entries with the same key, for every
\* sequence of batches the store may deliver, those in which one key comes
\* in more than one batch included.
C22_Original ==
    Returned => Cardinality(Names(ret.lists)) = Len(ret.lists)

-----------------------------------------------------------------------------
(* Equivalence of the two strategies *)

\* the page with the preloaded values is shown
Preloaded == build = "part_000" /\ browser.page = "preload"

\* the page the single-fetch strategy shows at the position the preloaded
\* page is on
OneFetch == ResultPage(SingleFetch(browser.key, browser.currentIndex), browser.key)

\* C23: on a list that does not change, after every sequence of older/newer
\* steps from every start index, the page that pages in the preloaded array
\* shows the same index and the same formatted value as the page that
\* fetches one value per step.
C23_Original == Preloaded => Visible(browser) = Visible(OneFetch)

====
